---- MODULE Spec2Model ----
(***************************************************************************)
(* A model of DATASETS/data_generator.py, the FinBank synthetic data       *)
(* generator.                                                              *)
(*                                                                         *)
(* Units.  Money that the code holds in a Python float is held here as an  *)
(* integer number of mills (1/1000 of a dollar), so that the two-decimal   *)
(* rounding the code applies when it records a value (round(x, 2)) is a    *)
(* real conversion.  Recorded money (a table column) is in cents, except   *)
(* the columns the code fills with whole dollars (an int), which are in    *)
(* dollars.  Dates are proleptic Gregorian ordinals (date.toordinal()).    *)
(*                                                                         *)
(* Draws.  Every call of a random source is a parameter of the action that *)
(* makes it.  A draw list names a few of the values the distribution can   *)
(* give.  Under the specifications of a single generator the draw is any   *)
(* member of its list; under SpecRun it is the member the seeded source    *)
(* gives.                                                                  *)
(***************************************************************************)
EXTENDS Integers, Sequences, FiniteSets, TLC

VARIABLES
    pc,               \* position of the program
    seed,             \* BankingDataGenerator: the seed it was built with
    customer_count,   \* BankingDataGenerator: self.customer_count
    now,              \* the wall-clock date of the run (datetime.now())
    rng,              \* the state of the seeded random sources
    branches,         \* generate_branches: the rows built so far
    customers,        \* generate_customers: the rows built so far
    account_df,       \* generate_accounts: the rows built so far; the table
    account_counter,  \* generate_accounts: the identifier counter
    cust_i,           \* generate_accounts: position of the iterrows loop
    num_accounts,     \* generate_accounts: accounts of this customer
    acc_k,            \* generate_accounts: accounts built for this customer
    transactions,     \* generate_transactions: the rows built so far
    transaction_id,   \* generate_transactions: the identifier counter
    acct_i,           \* generate_transactions: position of the iterrows loop
    actual_txns,      \* generate_transactions: rows to emit for this account
    txn_k,            \* generate_transactions: rows emitted for this account
    running_balance,  \* generate_transactions: the running balance, in mills
    loans,            \* generate_loans: the rows built so far
    loan_customers,   \* generate_loans: the sampled customers
    cards,            \* generate_credit_cards: the rows built so far
    card_customers,   \* generate_credit_cards: the sampled customers
    run_no,           \* which run of the program this is
    first_out,        \* the six tables the first run returned
    files,            \* save_datasets: the files in the output directory
    logged            \* __main__: the error messages printed

envVars == <<seed, customer_count, now>>

brVars == <<branches>>

cuVars == <<customers>>

acVars == <<account_df, account_counter, cust_i, num_accounts, acc_k>>

txVars == <<transactions, transaction_id, acct_i, actual_txns, txn_k,
            running_balance>>

loVars == <<loans, loan_customers>>

caVars == <<cards, card_customers>>

runVars == <<run_no, first_out, files, logged>>

vars == <<pc, envVars, rng, brVars, cuVars, acVars, txVars, loVars, caVars,
          runVars>>

(***************************************************************************)
(* Bounds of the model.                                                    *)
(***************************************************************************)
\* rows of the account table handed to generate_transactions
NumAccounts == 2
\* rows generate_transactions emits in one call, all accounts together
MaxTransactions == 2
\* the largest customer_count a generator is built with
MaxCustomers == 2
\* rows of the customer table handed to generate_loans, generate_credit_cards
NumCustomers == 4
\* rows of the largest customer table generate_loans samples two rows of
NumLoanCustomers == 5
\* the largest seed a generator is built with
MaxSeed == 3

(***************************************************************************)
(* Helpers.                                                                *)
(***************************************************************************)
Max(a, b) == IF a >= b THEN a ELSE b

Min(a, b) == IF a <= b THEN a ELSE b

Abs(a) == IF a >= 0 THEN a ELSE -a

\* the members of a list
Range(s) == {s[j] : j \in 1 .. Len(s)}

\* Python's round() of the quotient t / c, from its floor q and remainder r:
\* to the nearest integer, a tie going to the even one
RoundHalfEven(q, r, c) ==
    IF 2 * r < c THEN q
    ELSE IF 2 * r > c THEN q + 1
    ELSE IF q % 2 = 0 THEN q ELSE q + 1

\* the one member of a singleton
The(S) == CHOOSE x \in S : TRUE

\* <<floor(a * b / c), a * b mod c>> for a, b >= 0 and c > 0, computed
\* without the product itself (which may not fit a machine integer): from
\* h, that of a and the half of b, and t, what is left over c
RECURSIVE MulDivRec(_, _, _)
MulDivRec(a, b, c) ==
    IF b = 0
    THEN <<0, 0>>
    ELSE The({ <<2 * h[1] + t \div c, t % c>> :
                 <<h, t>> \in { <<g, 2 * g[2] + (b % 2) * a>> :
                     g \in { MulDivRec(a, half, c) : half \in {b \div 2} } } })

\* the same, its operands evaluated once
MulDiv(a, b, c) ==
    The({ MulDivRec(x, y, z) : x \in {a}, y \in {b}, z \in {c} })

\* round(x, 2) of a value held in mills: the nearest cent, a tie going to the
\* even cent (the draws of the model never produce a tie).
Round2(x) ==
    LET q == x \div 10
        r == x % 10
    IN  IF r < 5 THEN q
        ELSE IF r > 5 THEN q + 1
        ELSE IF q % 2 = 0 THEN q ELSE q + 1

\* a recorded amount of cents as mills (a float read back from a table)
Mills(cents) == cents * 10

\* the decimal digits of n >= 0, most significant first
RECURSIVE Digits(_)
Digits(n) == IF n < 10 THEN <<n>> ELSE Append(Digits(n \div 10), n % 10)

\* zero-padding to at least w digits, as the format specifier 0wd does
RECURSIVE ZeroPad(_, _)
ZeroPad(ds, w) == IF Len(ds) >= w THEN ds ELSE ZeroPad(<<0>> \o ds, w)

\* f'{prefix}{n:0wd}': the prefix followed by the padded digits
FormatId(prefix, n, w) == <<prefix>> \o ZeroPad(Digits(n), w)

\* line 243: f'ACC{account_counter:06d}'
AccountId(n) == FormatId("ACC", n, 6)

\* an identifier numbered from the rows of the account at hand
TransactionId_PerAccount(n) == FormatId("TXN", txn_k + 1, 8)

\* line 340: f'TXN{transaction_id:08d}'
TransactionId(n) == FormatId("TXN", n, 8)

(***************************************************************************)
(* BankingDataGenerator.__init__                                           *)
(***************************************************************************)
\* self.end_date = datetime(2025, 12, 31), as an ordinal
EndDate == 739616

\* the wall-clock dates a run is started on: around the end date
Nows == <<EndDate - 1, EndDate + 1>>

\* the relative dates the code hands to Faker's date_between, in days
\* (Faker reads 'Ny' as N times 365 days)
TwentyYears == 7300

TenYears == 3650

OneYear == 365

FiveYears == 1825

\* Faker.date_between(start, end): a date of [start, end], here the one
\* `back` days before the end, and never before the start
DateBetween(start, end, back) == Max(start, end - back)

\* _ensure_date: the tables of the pipeline hold date objects, which are
\* returned as they are (the strptime branch is for a table read from text).
EnsureDate(date_value) == date_value

(***************************************************************************)
(* generate_transactions and its helpers                                   *)
(***************************************************************************)
\* the overdraft limit of line 334, -1000 dollars, in mills
OverdraftLimit == -1000000

\* frequencies[account_type]: (mean, std) of the daily rate, in hundredths
Frequencies(account_type) ==
    CASE account_type = "Checking"     -> <<200, 100>>
      [] account_type = "Savings"      -> <<30, 20>>
      [] account_type = "Money Market" -> <<20, 15>>
      [] account_type = "CD"           -> <<5, 3>>

\* values random.normalvariate(mean, std) can give for the daily rate
FrequencyDraws(account_type) ==
    LET mean == Frequencies(account_type)[1]
        std  == Frequencies(account_type)[2]
    IN  <<mean - 3 * std, mean, mean + std>>

\* _get_transaction_frequency: max(0.01, draw), in hundredths
GetTransactionFrequency(z) == Max(1, z)

\* int(days_active * txn_frequency)
TotalExpectedTxns(days_active, txn_frequency) ==
    (days_active * txn_frequency) \div 100

\* values int(random.normalvariate(mu, mu * 0.1)) can give: mu itself when
\* the deviation is zero, else any integer (here: up to the model's bound)
CountDraws(total_expected_txns) ==
    IF total_expected_txns = 0
    THEN <<0>>
    ELSE [j \in 1 .. MaxTransactions + 2 |-> j - 2]

\* the drawn count taken as it comes
ActualTxns_AsDrawn(n) == n

\* max(1, int(draw))
ActualTxns(n) == Max(1, n)

\* (self.end_date.date() - account_open_date).days
DaysActive(account) == EndDate - EnsureDate(account.open_date)

\* a skip that tests for one inactive status only
IsSkippedStatus_ClosedOnly(status) == status = "Closed"

\* line 305: the account is skipped
IsSkippedStatus(status) == status # "Active"

\* a skip that lets an account opened on the end date through
NotYetOpen_Strict(days_active) == days_active < 0

\* line 312: the account is skipped
NotYetOpen(days_active) == days_active <= 0

\* _generate_transaction_details: the transaction types of an account type
TxnTypes(account_type) ==
    IF account_type = "Checking"
    THEN <<"POS", "ATM", "Transfer", "Online Payment", "Direct Deposit">>
    ELSE <<"Deposit", "Withdrawal", "Interest", "Transfer">>

\* random.choice([20, 40, 60, 80, 100])
ATMChoices == <<20, 40, 60, 80, 100>>

\* the raw draws behind an amount, <<z, s>>: z the variate (mills; for an
\* ATM the chosen number of dollars), s the sign drawn for a transfer
AmountDraws(txn_type) ==
    CASE txn_type \in {"Direct Deposit", "Deposit"} -> << <<-1500004, 1>> >>
      [] txn_type = "POS"      -> << <<33114, 1>> >>
      [] txn_type = "ATM"      -> [j \in 1 .. Len(ATMChoices) |->
                                     <<ATMChoices[j], 1>>]
      [] txn_type = "Interest" -> << <<50004, 1>> >>
      [] OTHER                 -> << <<960000, -1>> >>

\* _generate_transaction_amount
GenerateTransactionAmount(txn_type, z, s) ==
    CASE txn_type \in {"Direct Deposit", "Deposit"} -> Abs(z)
      [] txn_type = "POS"      -> -Abs(z)
      [] txn_type = "ATM"      -> -(z * 1000)
      [] txn_type = "Interest" -> Abs(z)
      [] OTHER                 -> z * s

\* a test of the sampled amount alone, the running balance forgotten
NeedsClamp_AmountOnly(running, amount) == amount < OverdraftLimit

\* line 334: the sampled amount would take the balance under the limit
NeedsClamp(running, amount) == running + amount < OverdraftLimit

\* values random.uniform(0, 100) can give, in mills
UniformDraws == <<0, 100000>>

\* a replacement that stops the balance at the limit
ClampedAmount_ToLimit(running, u) == OverdraftLimit - running

\* line 335: the amount that replaces the sampled one
ClampedAmount(running, u) == -running + u

\* values random.random() can give, in thousandths
StatusDraws == <<10, 500>>

\* line 349
TxnStatus(r) == IF r > 10 THEN "Completed" ELSE "Failed"

\* a row whose balance leaves a failed transaction's amount out
TransactionRow_FailedReversed(id, account, txn_type, amount, running, r) ==
    [ transaction_id   |-> TransactionId(id),
      account_id       |-> account.account_id,
      transaction_type |-> txn_type,
      amount           |-> Round2(amount),
      balance_after    |-> IF TxnStatus(r) = "Failed"
                           THEN Round2(running - amount)
                           ELSE Round2(running),
      status           |-> TxnStatus(r) ]

\* lines 339-350: the row appended (the date and the merchant columns, which
\* no later step reads, are left out)
TransactionRow(id, account, txn_type, amount, running, r) ==
    [ transaction_id   |-> TransactionId(id),
      account_id       |-> account.account_id,
      transaction_type |-> txn_type,
      amount           |-> Round2(amount),
      balance_after    |-> Round2(running),
      status           |-> TxnStatus(r) ]

\* the account tables generate_transactions is run on
AccountInputs ==
    { [account_type |-> "Checking", current_balance |-> 0,
       open_date |-> EndDate - 2, status |-> "Active"],
      [account_type |-> "CD", current_balance |-> 100000,
       open_date |-> EndDate - 1, status |-> "Active"],
      [account_type |-> "Checking", current_balance |-> 0,
       open_date |-> EndDate, status |-> "Active"],
      [account_type |-> "Savings", current_balance |-> 100000,
       open_date |-> EndDate + 1, status |-> "Active"],
      [account_type |-> "Checking", current_balance |-> 0,
       open_date |-> EndDate - 2, status |-> "Dormant"],
      [account_type |-> "Savings", current_balance |-> 100000,
       open_date |-> EndDate - 2, status |-> "Closed"] }

WithAccountId(row, n) ==
    [ account_id      |-> AccountId(n),
      account_type    |-> row.account_type,
      current_balance |-> row.current_balance,
      open_date       |-> row.open_date,
      status          |-> row.status ]

AccountTables ==
    { [n \in 1 .. NumAccounts |-> WithAccountId(t[n], n)] :
        t \in [1 .. NumAccounts -> AccountInputs] }

\* the variables a run of one generator alone never touches
IdleEnv == seed = 0 /\ customer_count = 0 /\ now = EndDate /\ rng = 0

IdleBranches == branches = <<>>

IdleCustomers == customers = <<>>

IdleAccounts ==
    /\ account_df = <<>>
    /\ account_counter = 1
    /\ cust_i = 1
    /\ num_accounts = 0
    /\ acc_k = 0

IdleTransactions ==
    /\ transactions = <<>>
    /\ transaction_id = 1
    /\ acct_i = 1
    /\ actual_txns = 0
    /\ txn_k = 0
    /\ running_balance = 0

IdleLoans == loans = <<>> /\ loan_customers = <<>>

IdleCards == cards = <<>> /\ card_customers = <<>>

IdleRun == run_no = 1 /\ first_out = <<>> /\ files = <<>> /\ logged = 0

\* lines 294-295: entry of generate_transactions
EnterTransactions ==
    /\ transactions' = <<>>
    /\ transaction_id' = 1
    /\ acct_i' = 1
    /\ actual_txns' = 0
    /\ txn_k' = 0
    /\ running_balance' = 0

\* generate_transactions(account_df) has just been entered
Init ==
    /\ pc = "txn_account"
    /\ account_df \in AccountTables
    /\ account_counter = NumAccounts + 1
    /\ cust_i = 1
    /\ num_accounts = 0
    /\ acc_k = 0
    /\ IdleTransactions
    /\ IdleEnv /\ IdleBranches /\ IdleCustomers /\ IdleLoans /\ IdleCards
    /\ IdleRun

\* lines 304-306: an account that is not Active is skipped
SkipInactive ==
    /\ pc = "txn_account"
    /\ acct_i <= Len(account_df)
    /\ IsSkippedStatus(account_df[acct_i].status)
    /\ acct_i' = acct_i + 1
    /\ UNCHANGED <<pc, transactions, transaction_id, actual_txns, txn_k,
                   running_balance>>
    /\ UNCHANGED <<envVars, rng, brVars, cuVars, acVars, loVars, caVars,
                   runVars>>

\* lines 308-313: an account with no day of activity is skipped
SkipNotYetOpen ==
    /\ pc = "txn_account"
    /\ acct_i <= Len(account_df)
    /\ ~IsSkippedStatus(account_df[acct_i].status)
    /\ NotYetOpen(DaysActive(account_df[acct_i]))
    /\ acct_i' = acct_i + 1
    /\ UNCHANGED <<pc, transactions, transaction_id, actual_txns, txn_k,
                   running_balance>>
    /\ UNCHANGED <<envVars, rng, brVars, cuVars, acVars, loVars, caVars,
                   runVars>>

\* the guard of lines 315-322: the account is Active and has been open
CanBeginAccount ==
    /\ pc = "txn_account"
    /\ acct_i <= Len(account_df)
    /\ ~IsSkippedStatus(account_df[acct_i].status)
    /\ ~NotYetOpen(DaysActive(account_df[acct_i]))

\* a start from the balance the simulation before it ended on
StartingBalance_Carried(account) == running_balance

\* lines 321-322: running_balance = current_balance = account['current_balance']
StartingBalance(account) == Mills(account.current_balance)

\* line 317, for the rate drawn as z
ExpectedFor(account, z) ==
    TotalExpectedTxns(DaysActive(account), GetTransactionFrequency(z))

\* lines 315-322: the number of rows is drawn (the rate as z, the count as
\* n), the running balance starts at the account's balance
BeginAccountWith(z, n) ==
    /\ CanBeginAccount
    /\ ActualTxns(n) <= MaxTransactions - Len(transactions)
    /\ actual_txns' = ActualTxns(n)
    /\ running_balance' = StartingBalance(account_df[acct_i])
    /\ txn_k' = 0
    /\ pc' = "txn_loop"
    /\ UNCHANGED <<transactions, transaction_id, acct_i>>
    /\ UNCHANGED <<envVars, brVars, cuVars, acVars, loVars, caVars, runVars>>

BeginAccount ==
    /\ CanBeginAccount
    /\ \E z \in Range(FrequencyDraws(account_df[acct_i].account_type)) :
         \E n \in Range(CountDraws(ExpectedFor(account_df[acct_i], z))) :
           BeginAccountWith(z, n)
    /\ UNCHANGED rng

\* the guard of lines 324-353: the inner loop has an iteration left
CanEmit == pc = "txn_loop" /\ txn_k < actual_txns

\* lines 324-353: one iteration of the inner loop, with the draws it makes:
\* the type, the variate z and sign s of the amount, u of the clamp (read
\* only when the clamp applies) and r of the status
EmitWith(txn_type, z, s, u, r) ==
    LET account == account_df[acct_i]
        sampled == GenerateTransactionAmount(txn_type, z, s)
        amount  == IF NeedsClamp(running_balance, sampled)
                   THEN ClampedAmount(running_balance, u)
                   ELSE sampled
        running == running_balance + amount
    IN  /\ CanEmit
        /\ running_balance' = running
        /\ transactions' = Append(transactions,
               TransactionRow(transaction_id, account, txn_type, amount,
                              running, r))
        /\ transaction_id' = transaction_id + 1
        /\ txn_k' = txn_k + 1
        /\ UNCHANGED <<pc, acct_i, actual_txns>>
        /\ UNCHANGED <<envVars, brVars, cuVars, acVars, loVars, caVars,
                       runVars>>

\* whether line 335 is reached, and with it the draw of u
ClampApplies(txn_type, z, s) ==
    NeedsClamp(running_balance, GenerateTransactionAmount(txn_type, z, s))

EmitTransaction ==
    /\ CanEmit
    /\ \E txn_type \in Range(TxnTypes(account_df[acct_i].account_type)) :
         \E d \in Range(AmountDraws(txn_type)) :
           \E r \in Range(StatusDraws) :
             \E u \in IF ClampApplies(txn_type, d[1], d[2])
                      THEN Range(UniformDraws) ELSE {0} :
               EmitWith(txn_type, d[1], d[2], u, r)
    /\ UNCHANGED rng

\* line 324: the inner loop is exhausted, the next account is taken
EndAccount ==
    /\ pc = "txn_loop"
    /\ txn_k = actual_txns
    /\ acct_i' = acct_i + 1
    /\ pc' = "txn_account"
    /\ UNCHANGED <<transactions, transaction_id, actual_txns, txn_k,
                   running_balance>>
    /\ UNCHANGED <<envVars, rng, brVars, cuVars, acVars, loVars, caVars,
                   runVars>>

\* line 355: the outer loop is exhausted, the table is returned
ReturnTransactions ==
    /\ pc = "txn_account"
    /\ acct_i > Len(account_df)
    /\ pc' = "txn_done"
    /\ UNCHANGED <<envVars, rng, brVars, cuVars, acVars, txVars, loVars,
                   caVars, runVars>>

Next ==
    \/ SkipInactive
    \/ SkipNotYetOpen
    \/ BeginAccount
    \/ EmitTransaction
    \/ EndAccount
    \/ ReturnTransactions

Spec == Init /\ [][Next]_vars

(***************************************************************************)
(* generate_branches                                                       *)
(***************************************************************************)
\* self.BRANCH_CITIES, in the order of the mapping
BranchCities ==
    << "New York", "Los Angeles", "Chicago", "Houston", "Phoenix",
       "Philadelphia", "San Antonio", "San Diego", "Dallas", "San Jose",
       "Austin", "Jacksonville", "Fort Worth", "Columbus", "San Francisco",
       "Seattle", "Denver", "Boston", "Atlanta", "Miami" >>

\* an identifier formatted from the loop index itself
BranchId_FromZero(i) == FormatId("BR", i, 4)

\* line 103: f'BR{i+1:04d}', i the index enumerate gives (from 0)
BranchId(i) == FormatId("BR", i + 1, 4)

\* days back from one year ago drawn for the opening date
OpeningDraws == <<0>>

\* random.randint(50_000_000, 500_000_000), in dollars
DepositDraws == <<50000000>>

\* random.randint(15, 100)
EmployeeDraws == <<100>>

\* lines 102-113: the row of the i-th city (the state, the zip code and the
\* jittered coordinates, which nothing reads, are left out)
BranchRow(i, back, deposits, employees) ==
    [ branch_id      |-> BranchId(i),
      branch_name    |-> <<BranchCities[i + 1], " Main Branch">>,
      city           |-> BranchCities[i + 1],
      opening_date   |-> DateBetween(now - TwentyYears, now - OneYear, back),
      total_deposits |-> deposits,
      employee_count |-> employees ]

\* line 99: entry of generate_branches
EnterBranches == branches' = <<>>

\* lines 101-114: one iteration over BRANCH_CITIES
AppendBranchWith(back, deposits, employees) ==
    /\ pc = "branches"
    /\ Len(branches) < Len(BranchCities)
    /\ branches' = Append(branches,
                          BranchRow(Len(branches), back, deposits, employees))
    /\ UNCHANGED <<pc, envVars, cuVars, acVars, txVars, loVars, caVars,
                   runVars>>

AppendBranch ==
    /\ \E back \in Range(OpeningDraws) :
         \E deposits \in Range(DepositDraws) :
           \E employees \in Range(EmployeeDraws) :
             AppendBranchWith(back, deposits, employees)
    /\ UNCHANGED rng

\* line 116: the loop is exhausted, the table is returned
ReturnBranches ==
    /\ pc = "branches"
    /\ Len(branches) = Len(BranchCities)
    /\ pc' = "branches_done"
    /\ UNCHANGED <<envVars, rng, brVars, cuVars, acVars, txVars, loVars,
                   caVars, runVars>>

(***************************************************************************)
(* generate_customers                                                      *)
(***************************************************************************)
\* list(AGE_DISTRIBUTION.keys())
AgeGroups == <<"18-25", "26-35", "36-45", "46-55", "56-65", "65+">>

\* lines 158-161: the bounds of an age group, read from its name
AgeRange(age_group) ==
    CASE age_group = "18-25" -> <<18, 25>>
      [] age_group = "26-35" -> <<26, 35>>
      [] age_group = "36-45" -> <<36, 45>>
      [] age_group = "46-55" -> <<46, 55>>
      [] age_group = "56-65" -> <<56, 65>>
      [] age_group = "65+"   -> <<65, 90>>

\* INCOME_RANGES, in dollars
IncomeRanges(age_group) ==
    CASE age_group = "18-25" -> <<20000, 60000>>
      [] age_group = "26-35" -> <<35000, 90000>>
      [] age_group = "36-45" -> <<50000, 150000>>
      [] age_group = "46-55" -> <<60000, 180000>>
      [] age_group = "56-65" -> <<55000, 160000>>
      [] age_group = "65+"   -> <<30000, 100000>>

\* the age groups random.choices is taken to give
AgeGroupDraws == <<AgeGroups[1], AgeGroups[6]>>

\* lines 163-164: the age is the least of its group, with no day past the
\* birthday, or the greatest, with 364
BirthDraws(age_group) ==
    IF age_group = "65+"
    THEN << <<AgeRange(age_group)[2], 364>> >>
    ELSE << <<AgeRange(age_group)[1], 0>> >>

\* line 164: datetime.now() - timedelta(days=age * 365 + extra), as a date
BirthDate(age, extra) == now - (age * 365 + extra)

\* random.normalvariate(mid, spread), in dollars: one draw above the range
IncomeDraws(age_group) == <<IncomeRanges(age_group)[2] + 5000>>

\* line 169: the income clipped to the range of the age group
ClipIncome(age_group, z) ==
    Max(IncomeRanges(age_group)[1], Min(IncomeRanges(age_group)[2], z))

\* int(random.normalvariate(700, 100))
ScoreDraws == <<299>>

\* line 185
CreditScore(z) == Max(300, Min(850, z))

\* the employment statuses random.choices is taken to give
EmploymentDraws == <<"Employed">>

\* days back from today drawn for customer_since
SinceDraws == <<0, 2>>

\* an identifier formatted from the loop index itself
CustomerId_FromZero(i) == FormatId("CUST", i, 6)

\* line 173: f'CUST{i+1:06d}'
CustomerId(i) == FormatId("CUST", i + 1, 6)

\* branch_df['branch_id'].tolist()
BranchIdList(branch_df) == [j \in 1 .. Len(branch_df) |-> branch_df[j].branch_id]

\* random.choice(branch_ids): the first and the last of the list
BranchDraws(branch_ids) ==
    IF branch_ids = <<>> THEN <<>>
    ELSE <<branch_ids[1], branch_ids[Len(branch_ids)]>>

\* lines 172-192: the row of the i-th customer (the name, contact, address
\* and ssn columns, which nothing reads, are left out)
CustomerRow(i, age_group, birth, income, score, employment, since, branch_id) ==
    [ customer_id       |-> CustomerId(i),
      date_of_birth     |-> BirthDate(birth[1], birth[2]),
      customer_since    |-> DateBetween(now - TenYears, now, since),
      credit_score      |-> CreditScore(score),
      annual_income     |-> ClipIncome(age_group, income),
      employment_status |-> employment,
      branch_id         |-> branch_id ]

\* line 135: entry of generate_customers
EnterCustomers == customers' = <<>>

\* the guard of lines 150-193: range(self.customer_count) has a value left
CanAppendCustomer == pc = "customers" /\ Len(customers) < customer_count

\* lines 150-193: one iteration of the loop
AppendCustomerWith(age_group, birth, income, score, employment, since, branch_id) ==
    /\ CanAppendCustomer
    /\ customers' = Append(customers,
           CustomerRow(Len(customers), age_group, birth, income, score,
                       employment, since, branch_id))
    /\ UNCHANGED <<pc, envVars, brVars, acVars, txVars, loVars, caVars,
                   runVars>>

AppendCustomer ==
    /\ \E age_group \in Range(AgeGroupDraws) :
         \E birth \in Range(BirthDraws(age_group)) :
           \E income \in Range(IncomeDraws(age_group)) :
             \E score \in Range(ScoreDraws) :
               \E employment \in Range(EmploymentDraws) :
                 \E since \in Range(SinceDraws) :
                   \E branch_id \in Range(BranchDraws(BranchIdList(branches))) :
                     AppendCustomerWith(age_group, birth, income, score,
                                        employment, since, branch_id)
    /\ UNCHANGED rng

\* line 195: the loop is exhausted, the table is returned
ReturnCustomers ==
    /\ pc = "customers"
    /\ Len(customers) >= customer_count
    /\ pc' = "customers_done"
    /\ UNCHANGED <<envVars, rng, brVars, cuVars, acVars, txVars, loVars,
                   caVars, runVars>>

\* line 599: customers = generator.generate_customers(branches)
CallCustomers ==
    /\ pc = "branches_done"
    /\ pc' = "customers"
    /\ EnterCustomers
    /\ UNCHANGED <<envVars, rng, brVars, acVars, txVars, loVars, caVars,
                   runVars>>

\* a generator built with any customer_count, generate_branches entered
InitCustomers ==
    /\ pc = "branches"
    /\ seed = 0
    /\ customer_count \in 0 .. MaxCustomers
    /\ now \in Range(Nows)
    /\ rng = 0
    /\ IdleBranches /\ IdleCustomers /\ IdleAccounts /\ IdleTransactions
    /\ IdleLoans /\ IdleCards /\ IdleRun

NextCustomers ==
    \/ AppendBranch
    \/ ReturnBranches
    \/ CallCustomers
    \/ AppendCustomer
    \/ ReturnCustomers

SpecCustomers == InitCustomers /\ [][NextCustomers]_vars

(***************************************************************************)
(* generate_accounts                                                       *)
(***************************************************************************)
\* int(random.expovariate(1 / 1.5))
NumAccountsDraws == <<0, 2>>

\* line 219: max(1, draw)
AccountsOf(n) == Max(1, n)

\* the account types random.choices is taken to give
AccountTypeDraws == <<"Checking", "CD">>

\* balance_ranges: (min, mean) of the type, in mills
BalanceRanges(account_type) ==
    CASE account_type = "Checking"     -> <<0, 5000000>>
      [] account_type = "Savings"      -> <<0, 15000000>>
      [] account_type = "Money Market" -> <<0, 25000000>>
      [] account_type = "CD"           -> <<1000000, 10000000>>

\* random.normalvariate(mean_bal, std_bal), in mills: under the least
\* balance of the type, and the mean
BalanceDraws(account_type) ==
    <<BalanceRanges(account_type)[1] - 4, BalanceRanges(account_type)[2]>>

\* line 237: max(min_bal, draw), in mills
Balance(account_type, z) == Max(BalanceRanges(account_type)[1], z)

\* days back from today drawn for the open date
OpenDraws == <<0, 1>>

\* the statuses random.choices gives
AccountStatusDraws == <<"Active", "Dormant", "Closed">>

\* lines 242-251: the row of an account of `customer` (the account number
\* and the interest rate, which nothing reads, are left out); the balance in
\* cents
AccountRow(n, customer, account_type, z, back, status) ==
    [ account_id      |-> AccountId(n),
      customer_id     |-> customer.customer_id,
      account_type    |-> account_type,
      current_balance |-> Round2(Balance(account_type, z)),
      open_date       |-> DateBetween(EnsureDate(customer.customer_since),
                                      now, back),
      status          |-> status ]

\* lines 214-215: entry of generate_accounts
EnterAccounts ==
    /\ account_df' = <<>>
    /\ account_counter' = 1
    /\ cust_i' = 1
    /\ num_accounts' = 0
    /\ acc_k' = 0

\* lines 217-219: the next customer is taken and the number of accounts
\* drawn as n
BeginCustomerWith(n) ==
    /\ pc = "acc_customer"
    /\ cust_i <= Len(customers)
    /\ num_accounts' = AccountsOf(n)
    /\ acc_k' = 0
    /\ pc' = "acc_loop"
    /\ UNCHANGED <<account_df, account_counter, cust_i>>
    /\ UNCHANGED <<envVars, brVars, cuVars, txVars, loVars, caVars, runVars>>

\* the guard of lines 221-253: the inner loop has an iteration left
CanAppendAccount == pc = "acc_loop" /\ acc_k < num_accounts

\* lines 221-253: one iteration of the inner loop
AppendAccountWith(account_type, z, back, status) ==
    /\ CanAppendAccount
    /\ account_df' = Append(account_df,
           AccountRow(account_counter, customers[cust_i], account_type, z,
                      back, status))
    /\ account_counter' = account_counter + 1
    /\ acc_k' = acc_k + 1
    /\ UNCHANGED <<pc, cust_i, num_accounts>>
    /\ UNCHANGED <<envVars, brVars, cuVars, txVars, loVars, caVars, runVars>>

\* line 221: the inner loop is exhausted, the next customer is taken
EndCustomer ==
    /\ pc = "acc_loop"
    /\ acc_k = num_accounts
    /\ cust_i' = cust_i + 1
    /\ pc' = "acc_customer"
    /\ UNCHANGED <<account_df, account_counter, num_accounts, acc_k>>
    /\ UNCHANGED <<envVars, rng, brVars, cuVars, txVars, loVars, caVars,
                   runVars>>

\* line 256: the outer loop is exhausted, the table is returned
ReturnAccounts ==
    /\ pc = "acc_customer"
    /\ cust_i > Len(customers)
    /\ pc' = "accounts_done"
    /\ UNCHANGED <<envVars, rng, brVars, cuVars, acVars, txVars, loVars,
                   caVars, runVars>>

(***************************************************************************)
(* The customer table handed to generate_loans and generate_credit_cards.  *)
(***************************************************************************)
\* a table of n customers as generate_customers builds it
CustomerTable(n) ==
    [j \in 1 .. n |->
        CustomerRow(j - 1, "18-25", <<18, 0>>, 65000, 299, "Employed", 2,
                    BranchId(0))]

\* DataFrame.sample(frac=f): round(f * len) rows, f in tenths
SampleSize(tenths, n) ==
    RoundHalfEven((tenths * n) \div 10, (tenths * n) % 10, 10)

\* the orders of a sample in which a row can come again
SampleOrders_WithReplacement(n, m) == [1 .. m -> 1 .. n]

\* the orders in which a sample of m of n rows can come: without replacement
SampleOrders(n, m) ==
    {o \in [1 .. m -> 1 .. n] : \A j, l \in 1 .. m : j # l => o[j] # o[l]}

\* the sampled rows, in the order drawn
SampleRows(df, order) == [j \in 1 .. Len(order) |-> df[order[j]]]

(***************************************************************************)
(* generate_accounts on a customer table, with any draws                  *)
(***************************************************************************)
\* line 219 with any of its draws
BeginCustomer ==
    /\ \E n \in Range(NumAccountsDraws) : BeginCustomerWith(n)
    /\ UNCHANGED rng

\* the j-th draw of a list, the list taken round
Cyc(list, j) == list[((j - 1) % Len(list)) + 1]

\* lines 221-253 with the draws of one account taken together: the j-th of
\* each list
AppendAccount ==
    /\ \E j \in 1 .. Len(AccountStatusDraws) :
         AppendAccountWith(Cyc(AccountTypeDraws, j),
                           Cyc(BalanceDraws(Cyc(AccountTypeDraws, j)), j),
                           Cyc(OpenDraws, j),
                           Cyc(AccountStatusDraws, j))
    /\ UNCHANGED rng

\* generate_accounts(customer_df) has just been entered
InitAccounts ==
    /\ pc = "acc_customer"
    /\ seed = 0
    /\ customer_count \in 0 .. MaxCustomers
    /\ now = Nows[1]
    /\ rng = 0
    /\ customers = CustomerTable(customer_count)
    /\ IdleBranches /\ IdleAccounts /\ IdleTransactions /\ IdleLoans
    /\ IdleCards /\ IdleRun

NextAccounts ==
    \/ BeginCustomer
    \/ AppendAccount
    \/ EndCustomer
    \/ ReturnAccounts

\* either of the two generators that number their rows with a counter
\* carried across the outer loop, just entered
InitIds == InitAccounts \/ Init

NextIds == NextAccounts \/ Next

SpecIds == InitIds /\ [][NextIds]_vars

(***************************************************************************)
(* generate_credit_cards                                                   *)
(***************************************************************************)
\* int(random.normalvariate(8000, 4000)), in dollars
LimitDraws == <<999, 8000, 50001>>

\* a clip that forgets the floor
CreditLimit_NoFloor(z) == Min(50000, z)

\* line 543: max(1000, min(50_000, draw))
CreditLimit(z) == Max(1000, Min(50000, z))

\* line 544: int(credit_limit * 0.8)
MaxCardBalance(credit_limit) == (credit_limit * 8) \div 10

\* random.randint(0, hi): the ends
CardBalanceDraws(hi) == <<0, hi>>

\* days back from five years ahead drawn for the expiry date
ExpiryDraws == <<0>>

\* days back from today drawn for the issue date
IssueDraws == <<0>>

\* the networks random.choice is taken to give
CardTypeDraws == <<"Visa">>

\* the statuses random.choices is taken to give
CardStatusDraws == <<"Active">>

\* line 549: f'CARD{i+1:06d}'
CardId(i) == FormatId("CARD", i + 1, 6)

\* a row whose available credit is the limit itself
CardRow_BalanceForgotten(i, customer, z, balance, expiry, issue, card_type, status) ==
    [ card_id          |-> CardId(i),
      customer_id      |-> customer.customer_id,
      expiry_date      |-> DateBetween(now, now + FiveYears, expiry),
      credit_limit     |-> CreditLimit(z),
      current_balance  |-> balance,
      available_credit |-> CreditLimit(z),
      issue_date       |-> DateBetween(EnsureDate(customer.customer_since),
                                       now, issue),
      card_type        |-> card_type,
      status           |-> status ]

\* lines 543-560: the row of the i-th sampled customer, in dollars (the card
\* number, which nothing reads, is left out)
CardRow(i, customer, z, balance, expiry, issue, card_type, status) ==
    [ card_id          |-> CardId(i),
      customer_id      |-> customer.customer_id,
      expiry_date      |-> DateBetween(now, now + FiveYears, expiry),
      credit_limit     |-> CreditLimit(z),
      current_balance  |-> balance,
      available_credit |-> CreditLimit(z) - balance,
      issue_date       |-> DateBetween(EnsureDate(customer.customer_since),
                                       now, issue),
      card_type        |-> card_type,
      status           |-> status ]

\* line 536: entry of generate_credit_cards
EnterCards == cards' = <<>> /\ card_customers' = <<>>

\* line 539: card_customers = customer_df.sample(frac=0.6), in this order
SampleCardCustomersWith(order) ==
    /\ pc = "cards_sample"
    /\ card_customers' = SampleRows(customers, order)
    /\ pc' = "cards_loop"
    /\ UNCHANGED <<cards, envVars, brVars, cuVars, acVars, txVars, loVars,
                   runVars>>

SampleCardCustomers ==
    /\ pc = "cards_sample"
    /\ \E order \in SampleOrders(Len(customers), SampleSize(6, Len(customers))) :
         SampleCardCustomersWith(order)
    /\ UNCHANGED rng

\* the guard of lines 541-560: a sampled customer is left
CanAppendCard == pc = "cards_loop" /\ Len(cards) < Len(card_customers)

\* lines 541-560: one iteration of the loop
AppendCardWith(z, balance, expiry, issue, card_type, status) ==
    /\ CanAppendCard
    /\ cards' = Append(cards,
           CardRow(Len(cards), card_customers[Len(cards) + 1], z, balance,
                   expiry, issue, card_type, status))
    /\ UNCHANGED <<pc, card_customers, envVars, brVars, cuVars, acVars, txVars,
                   loVars, runVars>>

AppendCard ==
    /\ \E z \in Range(LimitDraws) :
         \E balance \in Range(CardBalanceDraws(MaxCardBalance(CreditLimit(z)))) :
           \E expiry \in Range(ExpiryDraws) :
             \E issue \in Range(IssueDraws) :
               \E card_type \in Range(CardTypeDraws) :
                 \E status \in Range(CardStatusDraws) :
                   AppendCardWith(z, balance, expiry, issue, card_type, status)
    /\ UNCHANGED rng

\* line 562: the loop is exhausted, the table is returned
ReturnCards ==
    /\ pc = "cards_loop"
    /\ Len(cards) = Len(card_customers)
    /\ pc' = "cards_done"
    /\ UNCHANGED <<envVars, rng, brVars, cuVars, acVars, txVars, loVars,
                   caVars, runVars>>

\* generate_credit_cards(customer_df) has just been entered
InitCards ==
    /\ pc = "cards_sample"
    /\ seed = 0
    /\ customer_count \in 0 .. NumCustomers
    /\ now = Nows[1]
    /\ rng = 0
    /\ customers = CustomerTable(customer_count)
    /\ IdleBranches /\ IdleAccounts /\ IdleTransactions /\ IdleLoans
    /\ IdleCards /\ IdleRun

NextCards ==
    \/ SampleCardCustomers
    \/ AppendCard
    \/ ReturnCards

SpecCards == InitCards /\ [][NextCards]_vars

(***************************************************************************)
(* generate_loans                                                          *)
(*                                                                         *)
(* A rate, and a power of one plus a rate, is held in millionths; a        *)
(* product is cut to the millionth below.  The power of at most 360        *)
(* factors is taken by squaring, some seventeen products, so its error is  *)
(* under one part in ten thousand, and that of the payment under two parts *)
(* in a thousand.                                                          *)
(***************************************************************************)
\* 1.0 in millionths
FixedOne == 1000 * 1000

\* the product of two values held in millionths
MulFix(x, y) == MulDiv(x, y, FixedOne)[1]

\* b ** n for b in millionths, by squaring
RECURSIVE PowFix(_, _)
PowFix(b, n) ==
    IF n = 0 THEN FixedOne
    ELSE IF n % 2 = 0
         THEN The({ MulFix(h, h) : h \in { PowFix(b, n \div 2) } })
         ELSE The({ MulFix(h, b) : h \in { PowFix(b, n - 1) } })

\* the loan types of line 459
LoanTypes == <<"Mortgage", "Auto", "Personal", "Student">>

\* _get_loan_parameters: the bounds of random.randint for the amount, in
\* dollars
LoanAmountRange(loan_type) ==
    CASE loan_type = "Mortgage" -> <<100000, 500000>>
      [] loan_type = "Auto"     -> <<10000, 50000>>
      [] loan_type = "Personal" -> <<5000, 50000>>
      [] loan_type = "Student"  -> <<10000, 100000>>

\* _get_loan_parameters: the terms random.choice takes from, in months
LoanTerms(loan_type) ==
    CASE loan_type = "Mortgage" -> <<180, 240, 360>>
      [] loan_type = "Auto"     -> <<36, 48, 60, 72>>
      [] loan_type = "Personal" -> <<12, 24, 36, 48, 60>>
      [] loan_type = "Student"  -> <<120, 180, 240>>

\* _get_loan_parameters: the bounds of random.uniform for the yearly rate,
\* in millionths
LoanRateRange(loan_type) ==
    CASE loan_type = "Mortgage" -> <<30000, 60000>>
      [] loan_type = "Auto"     -> <<40000, 80000>>
      [] loan_type = "Personal" -> <<60000, 120000>>
      [] loan_type = "Student"  -> <<40000, 80000>>

\* random.choice(terms): the shortest and the longest
LoanTermDraws(loan_type) ==
    <<LoanTerms(loan_type)[1], LoanTerms(loan_type)[Len(LoanTerms(loan_type))]>>

\* random.randint(lo, hi): the ends
LoanAmountDraws(loan_type) == LoanAmountRange(loan_type)

\* random.uniform(lo, hi): the ends
LoanRateDraws(loan_type) == LoanRateRange(loan_type)

\* line 470: interest_rate / 12
MonthlyRate(interest_rate) == interest_rate \div 12

\* a payment that leaves the interest of the numerator out
MonthlyPayment_NoGrowth(amount, term, interest_rate) ==
    LET monthly_rate == MonthlyRate(interest_rate)
    IN  The({ RoundHalfEven(payment[1], payment[2], growth - FixedOne) :
              <<growth, payment>> \in
                { <<g, MulDiv(amount * 100, monthly_rate, g - FixedOne)>> :
                    g \in { PowFix(FixedOne + monthly_rate, term) } } })

\* lines 470-471 and 485: round(amount * (r * (1 + r) ** term) /
\* ((1 + r) ** term - 1), 2), in cents for an amount in dollars
MonthlyPayment(amount, term, interest_rate) ==
    LET monthly_rate == MonthlyRate(interest_rate)
    IN  The({ RoundHalfEven(payment[1], payment[2], growth - FixedOne) :
              <<growth, payment>> \in
                { <<g, MulDiv(amount * 100, MulFix(monthly_rate, g),
                              g - FixedOne)>> :
                    g \in { PowFix(FixedOne + monthly_rate, term) } } })

\* line 482: round(interest_rate, 4), in ten-thousandths
RecordedRate(interest_rate) ==
    RoundHalfEven(interest_rate \div 100, interest_rate % 100, 100)

\* random.uniform(0.1, 0.9), in thousandths
RemainingDraws == <<500>>

\* the statuses random.choices is taken to give
LoanStatusDraws == <<"Current">>

\* days back from today drawn for the start date
LoanDateDraws == <<0>>

\* line 478: f'LOAN{i+1:06d}'
LoanId(i) == FormatId("LOAN", i + 1, 6)

\* lines 477-489: the row of the i-th sampled customer
LoanRow(i, customer, loan_type, amount, term, interest_rate, back, u, status) ==
    [ loan_id           |-> LoanId(i),
      customer_id       |-> customer.customer_id,
      loan_type         |-> loan_type,
      loan_amount       |-> amount,
      interest_rate     |-> RecordedRate(interest_rate),
      term_months       |-> term,
      start_date        |-> DateBetween(EnsureDate(customer.customer_since),
                                        now, back),
      monthly_payment   |-> MonthlyPayment(amount, term, interest_rate),
      remaining_balance |-> Round2(amount * u),
      status            |-> status ]

\* line 452: entry of generate_loans
EnterLoans == loans' = <<>> /\ loan_customers' = <<>>

\* line 455: loan_customers = customer_df.sample(frac=0.3), in this order
SampleLoanCustomersWith(order) ==
    /\ pc = "loans_sample"
    /\ loan_customers' = SampleRows(customers, order)
    /\ pc' = "loans_loop"
    /\ UNCHANGED <<loans, envVars, brVars, cuVars, acVars, txVars, caVars,
                   runVars>>

SampleLoanCustomers ==
    /\ pc = "loans_sample"
    /\ \E order \in SampleOrders(Len(customers), SampleSize(3, Len(customers))) :
         SampleLoanCustomersWith(order)
    /\ UNCHANGED rng

\* the guard of lines 457-489: a sampled customer is left
CanAppendLoan == pc = "loans_loop" /\ Len(loans) < Len(loan_customers)

\* lines 457-489: one iteration of the loop
AppendLoanWith(loan_type, amount, term, interest_rate, back, u, status) ==
    /\ CanAppendLoan
    /\ loans' = Append(loans,
           LoanRow(Len(loans), loan_customers[Len(loans) + 1], loan_type,
                   amount, term, interest_rate, back, u, status))
    /\ UNCHANGED <<pc, loan_customers, envVars, brVars, cuVars, acVars, txVars,
                   caVars, runVars>>

AppendLoan ==
    /\ \E loan_type \in Range(LoanTypes) :
         \E amount \in Range(LoanAmountDraws(loan_type)) :
           \E term \in Range(LoanTermDraws(loan_type)) :
             \E interest_rate \in Range(LoanRateDraws(loan_type)) :
               \E back \in Range(LoanDateDraws) :
                 \E u \in Range(RemainingDraws) :
                   \E status \in Range(LoanStatusDraws) :
                     AppendLoanWith(loan_type, amount, term, interest_rate,
                                    back, u, status)
    /\ UNCHANGED rng

\* line 491: the loop is exhausted, the table is returned
ReturnLoans ==
    /\ pc = "loans_loop"
    /\ Len(loans) = Len(loan_customers)
    /\ pc' = "loans_done"
    /\ UNCHANGED <<envVars, rng, brVars, cuVars, acVars, txVars, loVars,
                   caVars, runVars>>

\* generate_loans(customer_df) has just been entered
InitLoans ==
    /\ pc = "loans_sample"
    /\ seed = 0
    /\ customer_count \in 0 .. NumCustomers
    /\ now = Nows[1]
    /\ rng = 0
    /\ customers = CustomerTable(customer_count)
    /\ IdleBranches /\ IdleAccounts /\ IdleTransactions /\ IdleLoans
    /\ IdleCards /\ IdleRun

NextLoans ==
    \/ SampleLoanCustomers
    \/ AppendLoan
    \/ ReturnLoans

SpecLoans == InitLoans /\ [][NextLoans]_vars

(***************************************************************************)
(* The two generators that sample the customer table, each run alone on a  *)
(* table: generate_credit_cards as above, generate_loans on tables large   *)
(* enough for a sample of two rows (round(0.3 * 5) = 2).                   *)
(***************************************************************************)
\* generate_loans(customer_df) has just been entered, on the larger tables
InitLoanSample ==
    /\ pc = "loans_sample"
    /\ seed = 0
    /\ customer_count \in 0 .. NumLoanCustomers
    /\ now = Nows[1]
    /\ rng = 0
    /\ customers = CustomerTable(customer_count)
    /\ IdleBranches /\ IdleAccounts /\ IdleTransactions /\ IdleLoans
    /\ IdleCards /\ IdleRun

InitSamples == InitLoanSample \/ InitCards

NextSamples == NextLoans \/ NextCards

SpecSamples == InitSamples /\ [][NextSamples]_vars

(***************************************************************************)
(* A whole run: generate_complete_dataset on a generator whose draws come  *)
(* from the three generators __init__ seeds, and the same run a second     *)
(* time.                                                                   *)
(***************************************************************************)
\* the seeds a generator is built with
Seeds == 0 .. MaxSeed

\* the states of one seeded pseudo-random generator
RngStates == 2 ^ 6

\* the state after one call on a generator
Advance(s) == (5 * s + 3) % RngStates

\* the state after k calls
RECURSIVE Draw(_, _)
Draw(s, k) == IF k = 0 THEN s ELSE Draw(Advance(s), k - 1)

\* what a call made in state s gives, of the draws of `list`
Pick(list, s) == list[((s \div 4 + s) % Len(list)) + 1]

\* lines 58-61: Faker, numpy and random are all three seeded with `seed`
Seeded(s) == [fake |-> s % RngStates, np |-> s % RngStates,
              py |-> s % RngStates]

\* rng after k more calls on Faker and m more on random
After(k, m) ==
    [rng EXCEPT !.fake = Draw(rng.fake, k), !.py = Draw(rng.py, m)]

\* the k-th call from now on on Faker, on random: its state
FakeAt(k) == Draw(rng.fake, k - 1)

PyAt(k) == Draw(rng.py, k - 1)

\* lines 596-597: branches = generator.generate_branches()
CallBranches ==
    /\ pc = "constructed"
    /\ pc' = "branches"
    /\ EnterBranches
    /\ UNCHANGED <<envVars, rng, cuVars, acVars, txVars, loVars, caVars,
                   runVars>>

\* lines 101-114 on the seeded generators: Faker gives the state, the zip
\* code and the opening date, random the two coordinates, the deposits and
\* the employees
RunAppendBranch ==
    /\ AppendBranchWith(Pick(OpeningDraws, FakeAt(3)),
                        Pick(DepositDraws, PyAt(3)),
                        Pick(EmployeeDraws, PyAt(4)))
    /\ rng' = After(3, 4)

\* lines 150-193 on the seeded generators: random gives the age group, the
\* age with its days, the income, the score, the employment and the
\* branch, Faker the nine columns of the person and then customer_since
RunAppendCustomer ==
    /\ CanAppendCustomer
    /\ LET age_group == Pick(AgeGroupDraws, PyAt(1))
       IN  AppendCustomerWith(age_group,
               Pick(BirthDraws(age_group), PyAt(2)),
               Pick(IncomeDraws(age_group), PyAt(4)),
               Pick(ScoreDraws, PyAt(5)),
               Pick(EmploymentDraws, PyAt(6)),
               Pick(SinceDraws, FakeAt(10)),
               Pick(BranchDraws(BranchIdList(branches)), PyAt(7)))
    /\ rng' = After(10, 7)

\* lines 601-602: accounts = generator.generate_accounts(customers)
CallAccounts ==
    /\ pc = "customers_done"
    /\ pc' = "acc_customer"
    /\ EnterAccounts
    /\ UNCHANGED <<envVars, rng, brVars, cuVars, txVars, loVars, caVars,
                   runVars>>

\* line 219 on the seeded generators
RunBeginCustomer ==
    /\ BeginCustomerWith(Pick(NumAccountsDraws, PyAt(1)))
    /\ rng' = After(0, 1)

\* calls on random for the interest rate of a type (lines 267-271): the
\* rate of a Checking account is fixed
InterestCalls(account_type) == IF account_type = "Checking" THEN 0 ELSE 1

\* lines 221-253 on the seeded generators: random gives the type, the
\* balance, the twelve digits of the number, the interest rate and the
\* status, Faker the open date
RunAppendAccount ==
    /\ CanAppendAccount
    /\ LET account_type == Pick(AccountTypeDraws, PyAt(1))
           before       == 14 + InterestCalls(account_type)
       IN  /\ AppendAccountWith(account_type,
                   Pick(BalanceDraws(account_type), PyAt(2)),
                   Pick(OpenDraws, FakeAt(1)),
                   Pick(AccountStatusDraws, PyAt(before + 1)))
           /\ rng' = After(1, before + 1)

\* lines 604-605: transactions = generator.generate_transactions(accounts)
CallTransactions ==
    /\ pc = "accounts_done"
    /\ pc' = "txn_account"
    /\ EnterTransactions
    /\ UNCHANGED <<envVars, rng, brVars, cuVars, acVars, loVars, caVars,
                   runVars>>

\* lines 315-322 on the seeded generators: random gives the rate and the
\* count
RunBeginAccount ==
    /\ CanBeginAccount
    /\ LET z == Pick(FrequencyDraws(account_df[acct_i].account_type), PyAt(1))
       IN  BeginAccountWith(z,
               Pick(CountDraws(ExpectedFor(account_df[acct_i], z)), PyAt(2)))
    /\ rng' = After(0, 2)

\* calls on random for the amount of a type: the sign of line 416 is one more
AmountCalls(txn_type) ==
    IF txn_type \in {"Direct Deposit", "Deposit", "POS", "ATM", "Interest"}
    THEN 1 ELSE 2

\* calls on random, on Faker, for the merchant of a type (lines 418-433)
CategoryCalls(txn_type) == IF txn_type = "POS" THEN 1 ELSE 0

MerchantCalls(txn_type) ==
    IF txn_type = "POS" THEN 2
    ELSE IF txn_type \in {"ATM", "Interest"} THEN 0 ELSE 1

\* lines 324-353 on the seeded generators: random gives the day, the hour,
\* the minute and the second, the type, the amount, the category of a POS
\* merchant, the partial payment when the clamp applies, and the status
RunEmitTransaction ==
    /\ CanEmit
    /\ LET txn_type == Pick(TxnTypes(account_df[acct_i].account_type), PyAt(5))
           d        == Pick(AmountDraws(txn_type), PyAt(6))
           before   == 5 + AmountCalls(txn_type) + CategoryCalls(txn_type)
           clamp    == IF ClampApplies(txn_type, d[1], d[2]) THEN 1 ELSE 0
       IN  /\ EmitWith(txn_type, d[1], d[2],
                       Pick(UniformDraws, PyAt(before + 1)),
                       Pick(StatusDraws, PyAt(before + clamp + 1)))
           /\ rng' = After(MerchantCalls(txn_type), before + clamp + 1)

\* lines 607-608: loans = generator.generate_loans(customers)
CallLoans ==
    /\ pc = "txn_done"
    /\ pc' = "loans_sample"
    /\ EnterLoans
    /\ UNCHANGED <<envVars, rng, brVars, cuVars, acVars, txVars, caVars,
                   runVars>>

\* the rows of `left` a seeded numpy draws, m of them, from state s on
RECURSIVE Shuffle(_, _, _)
Shuffle(left, m, s) ==
    IF m = 0 THEN <<>>
    ELSE LET j == ((s \div 4 + s) % Len(left)) + 1
         IN  <<left[j]>> \o
             Shuffle(SubSeq(left, 1, j - 1) \o SubSeq(left, j + 1, Len(left)),
                     m - 1, Advance(s))

\* DataFrame.sample(frac) on the seeded numpy: the order, and rng after it
SampleOrder(tenths) ==
    Shuffle([j \in 1 .. Len(customers) |-> j],
            SampleSize(tenths, Len(customers)), rng.np)

AfterSample(tenths) ==
    [rng EXCEPT !.np = Draw(rng.np, SampleSize(tenths, Len(customers)))]

\* line 455 on the seeded numpy
RunSampleLoanCustomers ==
    /\ SampleLoanCustomersWith(SampleOrder(3))
    /\ rng' = AfterSample(3)

\* lines 457-489 on the seeded generators: random gives the type, the
\* amount, the term, the rate, the part remaining and the status, Faker
\* the loan date
RunAppendLoan ==
    /\ CanAppendLoan
    /\ LET loan_type == Pick(LoanTypes, PyAt(1))
       IN  AppendLoanWith(loan_type,
               Pick(LoanAmountDraws(loan_type), PyAt(2)),
               Pick(LoanTermDraws(loan_type), PyAt(3)),
               Pick(LoanRateDraws(loan_type), PyAt(4)),
               Pick(LoanDateDraws, FakeAt(1)),
               Pick(RemainingDraws, PyAt(5)),
               Pick(LoanStatusDraws, PyAt(6)))
    /\ rng' = After(1, 6)

\* lines 610-611: credit_cards = generator.generate_credit_cards(customers)
CallCards ==
    /\ pc = "loans_done"
    /\ pc' = "cards_sample"
    /\ EnterCards
    /\ UNCHANGED <<envVars, rng, brVars, cuVars, acVars, txVars, loVars,
                   runVars>>

\* line 539 on the seeded numpy
RunSampleCardCustomers ==
    /\ SampleCardCustomersWith(SampleOrder(6))
    /\ rng' = AfterSample(6)

\* lines 541-560 on the seeded generators: random gives the limit, the
\* balance, the sixteen digits of the number, the network and the status,
\* Faker the expiry and the issue date
RunAppendCard ==
    /\ CanAppendCard
    /\ LET z == Pick(LimitDraws, PyAt(1))
       IN  AppendCardWith(z,
               Pick(CardBalanceDraws(MaxCardBalance(CreditLimit(z))), PyAt(2)),
               Pick(ExpiryDraws, FakeAt(1)),
               Pick(IssueDraws, FakeAt(2)),
               Pick(CardTypeDraws, PyAt(19)),
               Pick(CardStatusDraws, PyAt(20)))
    /\ rng' = After(2, 20)

\* lines 616-623: the six tables are returned
ReturnDataset ==
    /\ pc = "cards_done"
    /\ pc' = "run_done"
    /\ UNCHANGED <<envVars, rng, brVars, cuVars, acVars, txVars, loVars,
                   caVars, runVars>>

\* the six tables of a run
Tables == <<branches, customers, account_df, transactions, loans, cards>>

\* the first run is kept, and a generator is built again with the same seed
\* and the same customer_count (lines 57-67), on the same day or later
Rerun ==
    /\ pc = "run_done"
    /\ run_no = 1
    /\ first_out' = [now |-> now, tables |-> Tables]
    /\ run_no' = 2
    /\ \E today \in Range(Nows) : today >= now /\ now' = today
    /\ rng' = Seeded(seed)
    /\ pc' = "constructed"
    /\ branches' = <<>>
    /\ customers' = <<>>
    /\ EnterAccounts
    /\ EnterTransactions
    /\ EnterLoans
    /\ EnterCards
    /\ UNCHANGED <<seed, customer_count, files, logged>>

\* a generator has just been built, with any seed and customer_count, on
\* any day
InitRun ==
    /\ pc = "constructed"
    /\ seed \in Seeds
    /\ customer_count \in 0 .. MaxCustomers
    /\ now \in Range(Nows)
    /\ rng = Seeded(seed)
    /\ IdleBranches /\ IdleCustomers /\ IdleAccounts /\ IdleTransactions
    /\ IdleLoans /\ IdleCards /\ IdleRun

NextRun ==
    \/ CallBranches
    \/ RunAppendBranch
    \/ ReturnBranches
    \/ CallCustomers
    \/ RunAppendCustomer
    \/ ReturnCustomers
    \/ CallAccounts
    \/ RunBeginCustomer
    \/ RunAppendAccount
    \/ EndCustomer
    \/ ReturnAccounts
    \/ CallTransactions
    \/ SkipInactive
    \/ SkipNotYetOpen
    \/ RunBeginAccount
    \/ RunEmitTransaction
    \/ EndAccount
    \/ ReturnTransactions
    \/ CallLoans
    \/ RunSampleLoanCustomers
    \/ RunAppendLoan
    \/ ReturnLoans
    \/ CallCards
    \/ RunSampleCardCustomers
    \/ RunAppendCard
    \/ ReturnCards
    \/ ReturnDataset
    \/ Rerun

SpecRun == InitRun /\ [][NextRun]_vars

(***************************************************************************)
(* The program run as a script: __main__ generates the six tables, saves   *)
(* them and prints the summary; an exception raised anywhere under the try *)
(* is printed and raised again.                                            *)
(***************************************************************************)
\* the keys of the mapping generate_complete_dataset returns, in its order
TableNames ==
    <<"branches", "customers", "accounts", "transactions", "loans",
      "credit_cards">>

\* the positions of the program inside generate_complete_dataset
GenerationPcs ==
    {"constructed", "branches", "branches_done", "customers",
     "customers_done", "acc_customer", "acc_loop", "accounts_done",
     "txn_account", "txn_loop", "txn_done", "loans_sample", "loans_loop",
     "loans_done", "cards_sample", "cards_loop", "cards_done"}

\* save_datasets is called once every generator has returned
AllGenerated_AfterLoans == pc \in {"loans_done", "run_done"}

\* lines 693-696: save_datasets is called with what
\* generate_complete_dataset returned
AllGenerated == pc = "run_done"

\* lines 696 and 634: save_datasets is entered and the directory made
CallSave ==
    /\ AllGenerated
    /\ pc' = "saving"
    /\ UNCHANGED <<envVars, rng, brVars, cuVars, acVars, txVars, loVars,
                   caVars, runVars>>

\* the guard of lines 637-640: data_dict.items() has a table left
CanSave == pc = "saving" /\ Len(files) < Len(TableNames)

\* the file to_csv leaves for the next table: whole, or cut short
WrittenFile(state) == [name |-> TableNames[Len(files) + 1], state |-> state]

\* lines 637-640: the next table is written to its file
SaveTable ==
    /\ CanSave
    /\ files' = Append(files, WrittenFile("complete"))
    /\ UNCHANGED <<pc, envVars, rng, brVars, cuVars, acVars, txVars, loVars,
                   caVars, run_no, first_out, logged>>

\* line 642: every table is written, save_datasets returns
ReturnSave ==
    /\ pc = "saving"
    /\ Len(files) = Len(TableNames)
    /\ pc' = "saved"
    /\ UNCHANGED <<envVars, rng, brVars, cuVars, acVars, txVars, loVars,
                   caVars, runVars>>

\* lines 699-702: the summary and the closing message are printed
PrintSummary ==
    /\ pc = "saved"
    /\ pc' = "exit_ok"
    /\ UNCHANGED <<envVars, rng, brVars, cuVars, acVars, txVars, loVars,
                   caVars, runVars>>

\* a failure that takes the files written so far away
FilesAfterFailure_RolledBack(created) == <<>>

\* the files after to_csv has raised: those written before stay, and the
\* file of the table being written is there, cut short, when to_csv had
\* already opened it
FilesAfterFailure(created) ==
    IF created THEN Append(files, WrittenFile("truncated")) ELSE files

\* line 693: a statement of a generator raises; nothing handles it below
\* __main__
RaiseInGeneration ==
    /\ pc \in GenerationPcs
    /\ pc' = "except"
    /\ UNCHANGED <<envVars, rng, brVars, cuVars, acVars, txVars, loVars,
                   caVars, runVars>>

\* line 634: os.makedirs raises
RaiseInMakedirs ==
    /\ AllGenerated
    /\ pc' = "except"
    /\ UNCHANGED <<envVars, rng, brVars, cuVars, acVars, txVars, loVars,
                   caVars, runVars>>

\* line 639: to_csv raises, before or after it has opened the file
RaiseInSave ==
    /\ CanSave
    /\ \E created \in BOOLEAN : files' = FilesAfterFailure(created)
    /\ pc' = "except"
    /\ UNCHANGED <<envVars, rng, brVars, cuVars, acVars, txVars, loVars,
                   caVars, run_no, first_out, logged>>

\* line 699: generate_dataset_summary raises
RaiseInSummary ==
    /\ pc = "saved"
    /\ pc' = "except"
    /\ UNCHANGED <<envVars, rng, brVars, cuVars, acVars, txVars, loVars,
                   caVars, runVars>>

\* line 705: one print
LogsPerFailure == 1

\* lines 704-706: the exception is printed and raised again, which ends the
\* process with a traceback and a non-zero status
LogAndReraise ==
    /\ pc = "except"
    /\ logged' = logged + LogsPerFailure
    /\ pc' = "exit_failed"
    /\ UNCHANGED <<envVars, rng, brVars, cuVars, acVars, txVars, loVars,
                   caVars, run_no, first_out, files>>

NextMain ==
    \/ CallBranches
    \/ RunAppendBranch
    \/ ReturnBranches
    \/ CallCustomers
    \/ RunAppendCustomer
    \/ ReturnCustomers
    \/ CallAccounts
    \/ RunBeginCustomer
    \/ RunAppendAccount
    \/ EndCustomer
    \/ ReturnAccounts
    \/ CallTransactions
    \/ SkipInactive
    \/ SkipNotYetOpen
    \/ RunBeginAccount
    \/ RunEmitTransaction
    \/ EndAccount
    \/ ReturnTransactions
    \/ CallLoans
    \/ RunSampleLoanCustomers
    \/ RunAppendLoan
    \/ ReturnLoans
    \/ CallCards
    \/ RunSampleCardCustomers
    \/ RunAppendCard
    \/ ReturnCards
    \/ ReturnDataset
    \/ CallSave
    \/ SaveTable
    \/ ReturnSave
    \/ PrintSummary
    \/ RaiseInGeneration
    \/ RaiseInMakedirs
    \/ RaiseInSave
    \/ RaiseInSummary
    \/ LogAndReraise

\* the script has just built its generator (line 590)
SpecMain == InitRun /\ [][NextMain]_vars

(***************************************************************************)
(* Properties of generate_transactions.                                    *)
(***************************************************************************)
\* the rows emitted for the n-th account of the table, in generation order
TxnsOf(n) ==
    SelectSeq(transactions, LAMBDA t : t.account_id = account_df[n].account_id)

\* the sum of the amounts recorded on the first k rows of ts, in cents
RECURSIVE SumAmounts(_, _)
SumAmounts(ts, k) == IF k = 0 THEN 0 ELSE SumAmounts(ts, k - 1) + ts[k].amount

\* C1: for every account and every k, the balance_after recorded on the
\* account's k-th transaction equals its current_balance at entry plus the
\* sum of the amounts recorded on its first k transactions.
C1_BalanceIsSumOfRecordedAmounts ==
    \A n \in 1 .. Len(account_df) :
      \A k \in 1 .. Len(TxnsOf(n)) :
        TxnsOf(n)[k].balance_after =
            account_df[n].current_balance + SumAmounts(TxnsOf(n), k)

\* C2: no transaction carries the account_id of an account whose status is
\* not Active, whatever the account's type, balance and open date.
C2_NoTransactionsForInactive ==
    \A n \in 1 .. Len(account_df) :
      account_df[n].status # "Active" => TxnsOf(n) = <<>>

\* C2's case: the call has returned rows, and the table held an account that
\* is not Active ahead of an account that got a row.
C2_Witness ==
    /\ pc = "txn_done"
    /\ account_df[1].status \in {"Dormant", "Closed"}
    /\ Len(TxnsOf(2)) > 0

\* C3: every transaction whose type is ATM records an amount that is one of
\* -20, -40, -60, -80, -100 (in cents here).
C3_ATMAmountIsAChoice ==
    \A k \in 1 .. Len(transactions) :
      transactions[k].transaction_type = "ATM" =>
        transactions[k].amount \in {-(c * 100) : c \in Range(ATMChoices)}

\* C4: the accounts starting at -1000 or more, no balance_after under the
\* -1000 overdraft floor is ever recorded.
C4_BalanceNeverUnderFloor ==
    (\A n \in 1 .. Len(account_df) : account_df[n].current_balance >= -100000)
    => \A k \in 1 .. Len(transactions) :
         transactions[k].balance_after >= -100000

\* C4's case: a sampled amount that would have crossed the floor was replaced
\* (an ATM row records a positive amount), after a row that left the balance
\* within fifty dollars of the floor.
C4_Witness ==
    \E k \in 2 .. Len(transactions) :
      /\ transactions[k].account_id = transactions[k - 1].account_id
      /\ transactions[k - 1].balance_after <= -95000
      /\ transactions[k].transaction_type = "ATM"
      /\ transactions[k].amount > 0
      /\ transactions[k].balance_after >= 0

\* C7: an Active account opened on or after the end date yields no
\* transaction and consumes no transaction identifier: the identifiers
\* consumed are those of the rows emitted, none of which is this account's.
C7_NoTransactionsBeforeOpen ==
    /\ \A n \in 1 .. Len(account_df) :
         (account_df[n].status = "Active" /\ account_df[n].open_date >= EndDate)
         => TxnsOf(n) = <<>>
    /\ transaction_id = Len(transactions) + 1

\* C7's case: the first account is Active and opened on or after the end
\* date, and the first identifier went to the account after it.
C7_Witness ==
    /\ pc = "txn_done"
    /\ account_df[1].status = "Active"
    /\ account_df[1].open_date >= EndDate
    /\ Len(transactions) > 0
    /\ transactions[1].transaction_id = TransactionId(1)
    /\ transactions[1].account_id = account_df[2].account_id

\* C10: whatever status a transaction gets, the row records the amount by
\* which the running balance moved and the balance that includes it, and the
\* running balance carried into the next iteration is that balance.
C10_StatusLeavesBalanceAlone ==
    [][Len(transactions') = Len(transactions) + 1 =>
         LET t == transactions'[Len(transactions')]
         IN  /\ t.status \in {"Completed", "Failed"}
             /\ t.amount = Round2(running_balance' - running_balance)
             /\ t.balance_after = Round2(running_balance')]_vars

\* C10's case: a Failed transaction that moved the balance is followed by a
\* later transaction of the same account, whose balance builds on it.
C10_Witness ==
    \E k \in 2 .. Len(transactions) :
      /\ transactions[k].account_id = transactions[k - 1].account_id
      /\ transactions[k - 1].status = "Failed"
      /\ transactions[k - 1].amount < -1000
      /\ transactions[k].amount < -1000
      /\ transactions[k].balance_after < transactions[k - 1].balance_after

(***************************************************************************)
(* Properties of generate_branches and generate_customers.                 *)
(***************************************************************************)
\* the identifiers BR0001 .. BR0020, written out
ExpectedBranchIds == {<<"BR", 0, 0, j \div 10, j % 10>> : j \in 1 .. 20}

\* C8: for any customer_count N >= 0, generate_branches emits exactly 20
\* rows with the identifiers BR0001..BR0020, one per city and no identifier
\* twice; generate_customers emits exactly N rows, and every customer's
\* branch_id is the identifier of a row of the branch table passed in.
C8_BranchAndCustomerTables ==
    /\ pc # "branches" =>
         /\ Len(branches) = 20
         /\ {branches[j].branch_id : j \in 1 .. Len(branches)}
              = ExpectedBranchIds
         /\ \A j, l \in 1 .. Len(branches) :
              j # l => /\ branches[j].branch_id # branches[l].branch_id
                       /\ branches[j].city # branches[l].city
    /\ \A j \in 1 .. Len(customers) :
         \E l \in 1 .. Len(branches) :
           customers[j].branch_id = branches[l].branch_id
    /\ pc = "customers_done" => Len(customers) = customer_count

\* C8's case: both tables are complete, for a customer_count of two whose
\* customers sit at the first and at the last branch.
C8_Witness ==
    /\ pc = "customers_done"
    /\ customer_count = 2
    /\ Len(customers) = 2
    /\ customers[1].branch_id = <<"BR", 0, 0, 0, 1>>
    /\ customers[2].branch_id = <<"BR", 0, 0, 2, 0>>

(***************************************************************************)
(* Properties of generate_credit_cards.                                    *)
(***************************************************************************)
\* C6: for every credit card, available_credit = credit_limit -
\* current_balance exactly, 0 <= current_balance <= 0.8 * credit_limit,
\* credit_limit lies in [1000, 50000], and available_credit is not negative.
C6_CardCreditArithmetic ==
    \A j \in 1 .. Len(cards) :
      /\ cards[j].available_credit
           = cards[j].credit_limit - cards[j].current_balance
      /\ 0 <= cards[j].current_balance
      /\ 10 * cards[j].current_balance <= 8 * cards[j].credit_limit
      /\ 1000 <= cards[j].credit_limit
      /\ cards[j].credit_limit <= 50000
      /\ cards[j].available_credit >= 0

\* C6's case: the table is complete and holds a card at the least limit
\* drawn to 80 percent and a card at the greatest limit with no balance.
C6_Witness ==
    /\ pc = "cards_done"
    /\ \E j, l \in 1 .. Len(cards) :
         /\ cards[j].credit_limit = 1000
         /\ cards[j].current_balance = 800
         /\ cards[j].available_credit = 200
         /\ cards[l].credit_limit = 50000
         /\ cards[l].current_balance = 0

(***************************************************************************)
(* Properties of generate_loans.                                           *)
(***************************************************************************)
\* C9: for every loan, of every type, amount, term and rate of the type's
\* ranges, the recorded monthly_payment times term_months is at least the
\* loan_amount (the payment in cents, the amount in dollars).
C9_PaymentsCoverPrincipal ==
    \A j \in 1 .. Len(loans) :
      loans[j].monthly_payment * loans[j].term_months
        >= loans[j].loan_amount * 100

\* C9's case: the table is complete and holds the loan whose interest is
\* least: a Personal loan of 5000 over 12 months at 6 percent, paid back at
\* about 430.33 a month.
C9_Witness ==
    /\ pc = "loans_done"
    /\ \E j \in 1 .. Len(loans) :
         /\ loans[j].loan_type = "Personal"
         /\ loans[j].loan_amount = 5000
         /\ loans[j].term_months = 12
         /\ loans[j].interest_rate = 600
         /\ loans[j].monthly_payment \in 43030 .. 43036

(***************************************************************************)
(* Properties of a whole run and its repetition.                           *)
(***************************************************************************)
\* two runs with the same seed and customer_count on the same day give the
\* same six tables: the seeded generators are the only source of the draws
SameDayRunsAgree ==
    (run_no = 2 /\ pc = "run_done" /\ now = first_out.now)
      => Tables = first_out.tables

\* C5: when the second of two complete runs built with the same seed and
\* the same customer_count ends, its six tables are those of the first run,
\* whatever the days the two runs are made on.
C5_SameSeedSameTables ==
    (run_no = 2 /\ pc = "run_done") => Tables = first_out.tables

(***************************************************************************)
(* Properties of the program run as a script.                              *)
(***************************************************************************)
\* which call of the orchestrator a position belongs to: 0 before the
\* first, 1 to 6 the six generators in their order, 7 once all have
\* returned, 8 once the run has failed
StageOf(p) ==
    CASE p = "constructed" -> 0
      [] p \in {"branches", "branches_done"} -> 1
      [] p \in {"customers", "customers_done"} -> 2
      [] p \in {"acc_customer", "acc_loop", "accounts_done"} -> 3
      [] p \in {"txn_account", "txn_loop", "txn_done"} -> 4
      [] p \in {"loans_sample", "loans_loop", "loans_done"} -> 5
      [] p \in {"cards_sample", "cards_loop", "cards_done"} -> 6
      [] p \in {"run_done", "saving", "saved", "exit_ok"} -> 7
      [] p \in {"except", "exit_failed"} -> 8

\* the tables of the generators, each complete
BranchesComplete == Len(branches) = Len(BranchCities)

CustomersComplete == Len(customers) = customer_count

AccountsComplete == cust_i > Len(customers)

TransactionsComplete == acct_i > Len(account_df)

LoansComplete ==
    /\ Len(loan_customers) = SampleSize(3, Len(customers))
    /\ Len(loans) = Len(loan_customers)

CardsComplete ==
    /\ Len(card_customers) = SampleSize(6, Len(customers))
    /\ Len(cards) = Len(card_customers)

AllSixComplete ==
    /\ BranchesComplete /\ CustomersComplete /\ AccountsComplete
    /\ TransactionsComplete /\ LoansComplete /\ CardsComplete

\* where the call of generator g is made from, and what it consumes
StartsInOrder(g) ==
    CASE g = 1 -> pc = "constructed"
      [] g = 2 -> pc = "branches_done" /\ BranchesComplete
      [] g = 3 -> pc = "customers_done" /\ CustomersComplete
      [] g = 4 -> pc = "accounts_done" /\ AccountsComplete
      [] g = 5 -> pc = "txn_done" /\ CustomersComplete
      [] g = 6 -> pc = "loans_done" /\ CustomersComplete

\* C11: the orchestrator never goes back to a generator it has left and
\* enters generator g (1 branches, 2 customers, 3 accounts, 4 transactions,
\* 5 loans, 6 credit cards) only from the return of generator g - 1, with
\* the table it consumes complete, so a run that returns has run each of
\* the six once, in this order, and all six tables are complete; and a file
\* is in the output directory only when all six tables are complete.
C11_SixGeneratorsInOrderThenSave ==
    /\ [](pc \in {"run_done", "saving", "saved", "exit_ok"} => AllSixComplete)
    /\ [](files # <<>> => AllSixComplete)
    /\ [][ /\ StageOf(pc') >= StageOf(pc)
           /\ (StageOf(pc') # StageOf(pc) /\ StageOf(pc') \in 1 .. 6)
                => (StageOf(pc') = StageOf(pc) + 1 /\ StartsInOrder(StageOf(pc')))
           /\ (StageOf(pc') = 7 /\ StageOf(pc) # 7) => pc = "cards_done"
           /\ files' # files => (pc = "saving" /\ AllSixComplete) ]_vars

\* C11's case: a run of two customers with transactions, loans and cards
\* has ended with its six files written.
C11_Witness ==
    /\ pc = "exit_ok"
    /\ customer_count = 2
    /\ transactions # <<>>
    /\ loans # <<>>
    /\ cards # <<>>
    /\ Len(files) = Len(TableNames)

\* the files are those of the first tables, in the order of TableNames,
\* and only the last can be cut short, and only in a failed run
FilesArePrefix ==
    \A j \in 1 .. Len(files) :
      /\ files[j].name = TableNames[j]
      /\ files[j].state = "truncated"
           => (j = Len(files) /\ pc \in {"except", "exit_failed"})

\* C12, as the code has it: a failure anywhere under the try reaches the
\* handler of __main__, is printed once and ends the run failed, with no
\* step after it; no file is ever removed; after a failure in generation
\* there is no file; after a failure while saving the k-th table the k - 1
\* tables before it are there complete, no later table has a file, and the
\* file of the k-th table itself is either absent or there cut short.
C12_FailureLoggedOnceFilesKept ==
    /\ [](logged = (IF pc = "exit_failed" THEN 1 ELSE 0))
    /\ []FilesArePrefix
    /\ [][ /\ pc # "exit_failed"
           /\ (StageOf(pc') = 8 /\ StageOf(pc) # 8) => pc' = "except"
           /\ pc = "except" => (pc' = "exit_failed" /\ files' = files)
           /\ (pc \in GenerationPcs /\ pc' = "except") => files' = <<>>
           /\ Len(files') >= Len(files)
           /\ SubSeq(files', 1, Len(files)) = files
           /\ (pc = "saving" /\ pc' = "except")
                => /\ \A j \in 1 .. Len(files) : files[j].state = "complete"
                   /\ Len(files') <= Len(files) + 1 ]_vars

\* C12's case: the run has failed while the third table was being saved;
\* the error is printed once, the first two files are complete and the
\* third is cut short.
C12_Witness ==
    /\ pc = "exit_failed"
    /\ logged = 1
    /\ Len(files) = 3
    /\ files[1] = [name |-> "branches", state |-> "complete"]
    /\ files[2] = [name |-> "customers", state |-> "complete"]
    /\ files[3] = [name |-> "accounts", state |-> "truncated"]

\* C12 as stated: after a failed run the files that exist are exactly the
\* tables saved before the failure, each of them complete.
C12_OnlySavedTablesExist ==
    pc = "exit_failed" => \A j \in 1 .. Len(files) : files[j].state = "complete"

(***************************************************************************)
(* Properties of the identifiers.                                          *)
(***************************************************************************)
\* C13: at every point of generate_transactions the j-th row emitted has
\* the identifier TXN followed by j on eight digits and the counter is one
\* past the rows emitted, whatever accounts were skipped; and at every point
\* of generate_accounts the j-th row has the identifier ACC followed by j on
\* six digits and the counter is one past the rows built, across customers.
C13_IdentifiersSequential ==
    /\ \A j \in 1 .. Len(transactions) :
         transactions[j].transaction_id = FormatId("TXN", j, 8)
    /\ transaction_id = Len(transactions) + 1
    /\ \A j \in 1 .. Len(account_df) :
         account_df[j].account_id = FormatId("ACC", j, 6)
    /\ account_counter = Len(account_df) + 1

\* C13's case: the first account was skipped and the second, numbered
\* ACC000002, got the two rows TXN00000001 and TXN00000002.
C13_Witness ==
    /\ pc = "txn_done"
    /\ Len(account_df) = 2
    /\ IsSkippedStatus(account_df[1].status)
    /\ account_df[2].account_id = <<"ACC", 0, 0, 0, 0, 0, 2>>
    /\ Len(transactions) = 2
    /\ transactions[1].transaction_id = <<"TXN", 0, 0, 0, 0, 0, 0, 0, 1>>
    /\ transactions[2].transaction_id = <<"TXN", 0, 0, 0, 0, 0, 0, 0, 2>>
    /\ transactions[2].account_id = account_df[2].account_id

(***************************************************************************)
(* More properties of generate_transactions.                               *)
(***************************************************************************)
\* C14: in every iteration, for the amount sampled with whatever draws
\* (the type and the status being those the appended row records, the
\* uniform variate drawn only when line 335 is reached): when the running
\* balance plus the sampled amount is under -1000 the row records an
\* amount made of the running balance and the uniform draw alone, and a
\* balance_after within [0, 100] dollars; otherwise the row records the
\* sampled amount and the balance moves by it.
C14_ClampAfterSampleBeforeUpdate ==
    [][(CanEmit /\ Len(transactions') = Len(transactions) + 1) =>
         LET t        == transactions'[Len(transactions')]
             txn_type == t.transaction_type
         IN  /\ txn_type \in Range(TxnTypes(account_df[acct_i].account_type))
             /\ \A d \in Range(AmountDraws(txn_type)) :
                  LET sampled == GenerateTransactionAmount(txn_type, d[1], d[2])
                      crosses == running_balance + sampled < -1000 * 1000
                  IN  \A u \in IF crosses THEN Range(UniformDraws) ELSE {0} :
                        \A r \in {x \in Range(StatusDraws) :
                                    TxnStatus(x) = t.status} :
                          EmitWith(txn_type, d[1], d[2], u, r) =>
                            IF crosses
                            THEN /\ t.amount = Round2(u - running_balance)
                                 /\ t.balance_after \in 0 .. 100 * 100
                            ELSE /\ t.amount = Round2(sampled)
                                 /\ running_balance' = running_balance + sampled
      ]_vars

\* C14's case: a transfer of -960.00 was recorded as sampled, and the ATM
\* withdrawal sampled after it, which would have crossed -1000, was
\* replaced so that the balance came out at 100.00.
C14_Witness ==
    /\ Len(transactions) = 2
    /\ transactions[1].amount = -96000
    /\ transactions[1].balance_after = -96000
    /\ transactions[2].account_id = transactions[1].account_id
    /\ transactions[2].transaction_type = "ATM"
    /\ transactions[2].amount = 106000
    /\ transactions[2].balance_after = 10000

\* the n-th account passes both tests of lines 304-313
IsSimulated(n) ==
    /\ account_df[n].status = "Active"
    /\ DaysActive(account_df[n]) > 0

\* C15: every Active account with a day of activity gets at least one
\* row: whatever rate and count are drawn (a count of zero or less
\* included) the number of rows to emit is the drawn count, or 1 when that
\* is less than 1, and when the inner loop ends the account has exactly
\* that many rows; every simulated account already passed has kept its
\* rows, and every skipped one has none.
C15_AtLeastOneRowAndDrawnCount ==
    /\ [][CanBeginAccount =>
            \A z \in Range(FrequencyDraws(account_df[acct_i].account_type)) :
              \A n \in Range(CountDraws(ExpectedFor(account_df[acct_i], z))) :
                BeginAccountWith(z, n) =>
                  actual_txns' = (IF n < 1 THEN 1 ELSE n)
         ]_vars
    /\ [](pc = "txn_loop" =>
            /\ IsSimulated(acct_i)
            /\ actual_txns >= 1
            /\ Len(TxnsOf(acct_i)) = txn_k
            /\ txn_k <= actual_txns)
    /\ [][EndAccount => Len(TxnsOf(acct_i)) = actual_txns]_vars
    /\ [](pc \in {"txn_account", "txn_loop", "txn_done"} =>
            \A n \in 1 .. Len(account_df) :
              /\ (n < acct_i /\ IsSimulated(n)) => Len(TxnsOf(n)) >= 1
              /\ ~IsSimulated(n) => Len(TxnsOf(n)) = 0)

\* C15's case: a CD account open for one day, whose expected count is 0
\* for every rate, got its one row, and so did a checking account open for
\* two days.
C15_Witness ==
    /\ pc = "txn_done"
    /\ account_df[1].account_type = "CD"
    /\ IsSimulated(1)
    /\ \A z \in Range(FrequencyDraws("CD")) : ExpectedFor(account_df[1], z) = 0
    /\ Len(TxnsOf(1)) = 1
    /\ account_df[2].account_type = "Checking"
    /\ IsSimulated(2)
    /\ Len(TxnsOf(2)) = 1

\* C16: no step of generate_transactions changes the account table, every
\* account's simulation starts its running balance at that account's own
\* current_balance whatever the balance the account before it ended on,
\* and the first row of every account records the balance reached from
\* the account's own current_balance by the row's own amount.
C16_AccountTableUntouchedBalanceLocal ==
    /\ [][account_df' = account_df]_vars
    /\ [][CanBeginAccount =>
            \A z \in Range(FrequencyDraws(account_df[acct_i].account_type)) :
              \A n \in Range(CountDraws(ExpectedFor(account_df[acct_i], z))) :
                BeginAccountWith(z, n) =>
                  running_balance' = 10 * account_df[acct_i].current_balance
         ]_vars
    /\ [](\A n \in 1 .. Len(account_df) :
            Len(TxnsOf(n)) >= 1 =>
              TxnsOf(n)[1].balance_after =
                account_df[n].current_balance + TxnsOf(n)[1].amount)

\* C16's case: the first account ended its simulation 960.00 under its
\* balance of 0, and the second account, holding 1000.00, has had its
\* first row, which took 960.00 from its own 1000.00.
C16_Witness ==
    /\ Len(transactions) = 2
    /\ account_df[1].current_balance = 0
    /\ transactions[1].account_id = account_df[1].account_id
    /\ transactions[1].balance_after = -96000
    /\ account_df[2].current_balance = 100000
    /\ transactions[2].account_id = account_df[2].account_id
    /\ transactions[2].amount = -96000
    /\ transactions[2].balance_after = 4000
    /\ running_balance = 40000

(***************************************************************************)
(* Properties of the samples of generate_loans and generate_credit_cards.  *)
(***************************************************************************)
\* no customer_id is held by two rows of the table
NoCustomerTwice(table) ==
    \A j, l \in 1 .. Len(table) :
      j # l => table[j].customer_id # table[l].customer_id

\* every customer_id of the table is that of a row of the customer table
AllOfCustomers(table) ==
    \A j \in 1 .. Len(table) :
      \E c \in 1 .. Len(customers) :
        table[j].customer_id = customers[c].customer_id

\* C17: at every point of generate_loans and of generate_credit_cards, no
\* customer_id occurs on two rows of the loan table, none on two rows of
\* the card table, and every customer_id of either table is the
\* identifier of a row of the customer table; the sample itself holds no
\* row twice.
C17_SampledWithoutReplacement ==
    /\ NoCustomerTwice(loans)
    /\ NoCustomerTwice(cards)
    /\ AllOfCustomers(loans)
    /\ AllOfCustomers(cards)
    /\ NoCustomerTwice(loan_customers)
    /\ NoCustomerTwice(card_customers)

\* C17's case: generate_loans returned two loans from a table of five
\* customers, the first for the last customer and the second for the
\* first.
C17_Witness ==
    /\ pc = "loans_done"
    /\ Len(customers) = 5
    /\ Len(loans) = 2
    /\ loans[1].customer_id = customers[5].customer_id
    /\ loans[2].customer_id = customers[1].customer_id

====
